---- MODULE Spec2Model ----
(***************************************************************************)
(* A model of codemap (src/codemap.py): the file collector, the            *)
(* classifier, the importance scorer, the Python API extractor and the     *)
(* narrative renderer with its token budget.                               *)
(*                                                                         *)
(* Text is modelled by TLC strings, so that prefixes, suffixes, separator  *)
(* counts and lengths are computed the way the code computes them.  The    *)
(* non-ASCII characters the renderer prints are replaced by ASCII          *)
(* characters, one for one, so that every len() is the one Python gives.   *)
(* Floating-point scores are modelled as exact fractions num/den.          *)
(***************************************************************************)
EXTENDS Integers, Sequences, FiniteSets, TLC

\* ---------------------------------------------------------------- bounds

\* Largest number of files in the project tree given to a run.
MaxFiles == 2

\* Largest max_depth option tried (the option ranges over 0..MaxDepthOpt).
MaxDepthOpt == 2

\* Largest line count of a hand-built record given to the scorer.
MaxLines == 2

\* ------------------------------------------------------- text primitives

Min(a, b) == IF a <= b THEN a ELSE b

\* s[i:] of Python, with i counted from 0
StrFrom(s, i) == IF i >= Len(s) THEN "" ELSE SubSeq(s, i + 1, Len(s))

\* s[:n] of Python for n >= 0; for n < 0 the last -n characters are dropped
StrTake(s, n) ==
    IF n >= 0 THEN (IF n >= Len(s) THEN s ELSE IF n = 0 THEN "" ELSE SubSeq(s, 1, n))
    ELSE (IF Len(s) + n <= 0 THEN "" ELSE SubSeq(s, 1, Len(s) + n))

\* str.startswith
StartsWith(s, p) == Len(s) >= Len(p) /\ StrTake(s, Len(p)) = p

\* str.endswith
EndsWith(s, p) == Len(s) >= Len(p) /\ StrFrom(s, Len(s) - Len(p)) = p

\* the positions (from 1) of the one-character string c in s
Positions(s, c) == {i \in 1..Len(s) : SubSeq(s, i, i) = c}

\* str.count for a one-character needle
StrCount(s, c) == Cardinality(Positions(s, c))

\* position (from 1) of the last c in s, 0 when there is none: str.rfind + 1
RFind(s, c) ==
    IF Positions(s, c) = {} THEN 0
    ELSE CHOOSE i \in Positions(s, c) : \A j \in Positions(s, c) : j <= i

\* position (from 1) of the first c in s, 0 when there is none: str.find + 1
Find(s, c) ==
    IF Positions(s, c) = {} THEN 0
    ELSE CHOOSE i \in Positions(s, c) : \A j \in Positions(s, c) : i <= j

\* sep.join(parts)
RECURSIVE Join(_, _)
Join(parts, sep) ==
    IF parts = <<>> THEN ""
    ELSE IF Len(parts) = 1 THEN parts[1]
    ELSE parts[1] \o sep \o Join(Tail(parts), sep)

\* The characters of the model's names, in code-point order.
AsciiOrder == " #()*+,-./0123456789:ABCDEFGHIJKLMNOPQRSTUVWXYZ_abcdefghijklmnopqrstuvwxyz|~"

Ord(c) == Find(AsciiOrder, c)

UpperChars == "ABCDEFGHIJKLMNOPQRSTUVWXYZ"

LowerChars == "abcdefghijklmnopqrstuvwxyz"

\* str.lower
RECURSIVE Lower(_)
Lower(s) ==
    IF s = "" THEN ""
    ELSE LET c == Head(s)
             i == Find(UpperChars, c)
         IN (IF i = 0 THEN c ELSE SubSeq(LowerChars, i, i)) \o Lower(StrFrom(s, 1))

\* a < b for Python strings: code-point lexicographic order
RECURSIVE StrLess(_, _)
StrLess(a, b) ==
    IF b = "" THEN FALSE
    ELSE IF a = "" THEN TRUE
    ELSE IF Head(a) = Head(b) THEN StrLess(StrFrom(a, 1), StrFrom(b, 1))
    ELSE Ord(Head(a)) < Ord(Head(b))

\* str.strip() for the blanks of the model
RECURSIVE Strip(_)
Strip(s) ==
    IF s = "" THEN ""
    ELSE IF Head(s) = " " THEN Strip(StrFrom(s, 1))
    ELSE IF SubSeq(s, Len(s), Len(s)) = " " THEN Strip(StrTake(s, Len(s) - 1))
    ELSE s

\* the elements of a sequence
Range(q) == {q[i] : i \in 1..Len(q)}

\* the sequences that list every element of the finite set S exactly once
Orderings(S) ==
    {q \in [1..Cardinality(S) -> S] : \A i, j \in 1..Cardinality(S) : q[i] = q[j] => i = j}

\* sorted(S) for a set of distinct strings
SortedStrings(S) ==
    CHOOSE q \in Orderings(S) : \A i, j \in 1..Len(q) : i < j => StrLess(q[i], q[j])

\* -------------------------------------------------------------- constants

SKIP_DIRS ==
    {".git", "__pycache__", "node_modules", ".venv", "venv", ".tox", ".eggs",
     "dist", "build", ".mypy_cache", ".pytest_cache", ".ruff_cache", "egg-info",
     ".idea", ".vscode"}

SKIP_FILES ==
    {"package-lock.json", "yarn.lock", "poetry.lock", "Pipfile.lock",
     "pnpm-lock.yaml", "uv.lock"}

CHARS_PER_TOKEN == 4

\* the size above which discover_files drops a file
MAX_FILE_SIZE == 1000000

\* os.sep
SEP == "/"

\* ------------------------------------------------------------------ paths

\* str.split(sep) without the empty pieces
RECURSIVE SplitPath(_)
SplitPath(p) ==
    IF p = "" THEN <<>>
    ELSE LET i == Find(p, SEP)
         IN IF i = 0 THEN <<p>>
            ELSE IF i = 1 THEN SplitPath(StrFrom(p, 1))
            ELSE <<StrTake(p, i - 1)>> \o SplitPath(StrFrom(p, i))

\* os.path.abspath of a root given by its components: "/" for the filesystem root
AbsPath(comps) == IF comps = <<>> THEN SEP ELSE SEP \o Join(comps, SEP)

\* os.path.join(a, b) for a relative b
PathJoin(a, b) == IF EndsWith(a, SEP) THEN a \o b ELSE a \o SEP \o b

\* os.path.basename
Basename(p) == StrFrom(p, RFind(p, SEP))

\* str.rstrip("/")
RECURSIVE RStripSep(_)
RStripSep(s) == IF EndsWith(s, SEP) /\ s # "" THEN RStripSep(StrTake(s, Len(s) - 1)) ELSE s

\* os.path.dirname
Dirname(p) ==
    LET head == StrTake(p, RFind(p, SEP))
    IN IF head # "" /\ RStripSep(head) # "" THEN RStripSep(head) ELSE head

\* the name alone taken for the relative path
Relpath_mut_basename(path, start) == Basename(path)

\* os.path.relpath(path, start) for absolute, normalised paths
Relpath(path, start) ==
    LET sl == SplitPath(start)
        pl == SplitPath(path)
        common == CHOOSE n \in 0..Min(Len(sl), Len(pl)) :
                      /\ \A k \in 1..n : sl[k] = pl[k]
                      /\ n < Min(Len(sl), Len(pl)) => sl[n + 1] # pl[n + 1]
        ups == [k \in 1..(Len(sl) - common) |-> ".."]
        rest == IF common >= Len(pl) THEN <<>> ELSE SubSeq(pl, common + 1, Len(pl))
    IN IF ups \o rest = <<>> THEN "." ELSE Join(ups \o rest, SEP)

\* the extension os.path.splitext gives for a basename: leading dots are no extension
Splitext(name) ==
    LET d == RFind(name, ".")
    IN IF d = 0 THEN ""
       ELSE IF \A k \in 1..(d - 1) : SubSeq(name, k, k) = "." THEN ""
       ELSE StrFrom(name, d - 1)

\* ------------------------------------------------------------- classifier

ext_map(ext) ==
    CASE ext = ".py" -> "Python"
      [] ext = ".js" -> "JavaScript"
      [] ext = ".ts" -> "TypeScript"
      [] ext = ".jsx" -> "React"
      [] ext = ".tsx" -> "React/TS"
      [] ext = ".rs" -> "Rust"
      [] ext = ".go" -> "Go"
      [] ext = ".rb" -> "Ruby"
      [] ext = ".java" -> "Java"
      [] ext = ".c" -> "C"
      [] ext = ".cpp" -> "C++"
      [] ext = ".h" -> "C/C++ Header"
      [] ext = ".sh" -> "Shell"
      [] ext = ".bash" -> "Bash"
      [] ext = ".zsh" -> "Zsh"
      [] ext = ".sql" -> "SQL"
      [] ext = ".html" -> "HTML"
      [] ext = ".css" -> "CSS"
      [] ext = ".yaml" -> "YAML"
      [] ext = ".yml" -> "YAML"
      [] ext = ".toml" -> "TOML"
      [] ext = ".json" -> "JSON"
      [] ext = ".md" -> "Markdown"
      [] ext = ".rst" -> "reStructuredText"
      [] ext = ".dockerfile" -> "Dockerfile"
      [] ext = ".tf" -> "Terraform"
      [] OTHER -> ""

detect_language(filepath) ==
    LET name == Lower(Basename(filepath))
    IN IF name = "dockerfile" THEN "Dockerfile"
       ELSE IF name = "makefile" THEN "Makefile"
       ELSE ext_map(Splitext(name))

ENTRYPOINT_NAMES ==
    {"main.py", "app.py", "cli.py", "server.py", "manage.py",
     "index.js", "index.ts", "main.go", "main.rs"}

\* has_markers: the content is not empty and holds both '__name__' and '__main__'
is_entrypoint(filepath, has_markers) ==
    LET name == Lower(Basename(filepath))
    IN \/ name \in ENTRYPOINT_NAMES
       \/ EndsWith(name, ".py") /\ has_markers

TEST_DIRS == {"test", "tests", "__tests__", "spec", "specs"}

is_test_file_mut_no_dir(filepath) ==
    LET basename == Basename(filepath)
    IN \/ StartsWith(basename, "test_")
       \/ EndsWith(basename, "_test.py")
       \/ EndsWith(basename, "_test.js")
       \/ EndsWith(basename, ".test.js")
       \/ EndsWith(basename, ".test.ts")
       \/ EndsWith(basename, ".spec.js")
       \/ EndsWith(basename, ".spec.ts")
       \/ basename = "test.py"
       \/ basename = "tests.py"

is_test_file(filepath) ==
    LET basename == Basename(filepath)
        dirname == Basename(Dirname(filepath))
    IN \/ StartsWith(basename, "test_")
       \/ EndsWith(basename, "_test.py")
       \/ EndsWith(basename, "_test.js")
       \/ EndsWith(basename, ".test.js")
       \/ EndsWith(basename, ".test.ts")
       \/ EndsWith(basename, ".spec.js")
       \/ EndsWith(basename, ".spec.ts")
       \/ basename = "test.py"
       \/ basename = "tests.py"
       \/ dirname \in TEST_DIRS

\* ------------------------------------------------------- the project tree

\* A syntax-tree node of a Python file (ast.*): a function, a class, an import,
\* an assignment, or any other statement.
Node(kind, name) ==
    [kind |-> kind, name |-> name, args |-> <<>>, vararg |-> "", kwonly |-> <<>>, kwarg |-> "",
     returns |-> "", doc |-> "", decorators |-> <<>>, bases |-> <<>>, body |-> <<>>,
     names |-> <<>>, module |-> "", level |-> 0]

Def(name) == Node("FunctionDef", name)

AsyncDef(name) == Node("AsyncFunctionDef", name)

Arg(name, annotation, default) == [arg |-> name, annotation |-> annotation, default |-> default]

\* a decorator expression and whether ast.unparse renders it
Decorator(text) == [text |-> text, renders |-> TRUE]

ClassApp ==
    [Node("ClassDef", "App") EXCEPT
        !.bases = <<"Base">>, !.doc = "The application",
        !.body = << [Def("__init__") EXCEPT !.args = <<Arg("self", "", ""), Arg("name", "str", "")>>],
                    [Def("start") EXCEPT !.args = <<Arg("self", "", "")>>,
                                         !.decorators = <<Decorator("property")>>],
                    [Def("_stop") EXCEPT !.args = <<Arg("self", "", "")>>] >>]

BodyMain ==
    << [Node("Expr", "") EXCEPT !.doc = "Main entry point"],
       [Node("Import", "") EXCEPT !.names = <<"os.path", "requests">>],
       [Def("run") EXCEPT !.args = <<Arg("argv", "list", "None")>>, !.returns = "int",
                          !.doc = "Run it"],
       Def("_helper"),
       ClassApp,
       Node("ClassDef", "_Hidden"),
       AsyncDef("serve"),
       Node("If", "") >>

BodyPrivate ==
    << [Node("ImportFrom", "") EXCEPT !.module = "yaml.loader"],
       [Node("ImportFrom", "") EXCEPT !.module = "sibling", !.level = 1],
       Def("_only"),
       Node("ClassDef", "_Impl") >>

BodyOne == << Def("f") >>

BodyNone == << Node("Expr", "") >>

\* One file of a tree: its directory below the root, its name, st_size, the
\* number of line terminators and whether bytes follow the last one, the text
\* of its leading comment, whether it holds '__name__' and '__main__', whether
\* os.stat and open succeed, and for a Python source whether it parses (if
\* not, the exception ast.parse raises), and its statements.
File(dir, name, size, nl, tail, doc, markers, body) ==
    [dir |-> dir, name |-> name, size |-> size, nl |-> nl, tail |-> tail, doc |-> doc,
     markers |-> markers, stat_ok |-> TRUE, read_ok |-> TRUE, parse_ok |-> TRUE,
     parse_error |-> "", body |-> body]

\* a source ast.parse fails on, with the exception it raises
Unparsable(f, exc) == [f EXCEPT !.parse_ok = FALSE, !.parse_error = exc]

Universe ==
    << File(<<>>, "main.py", 300, 1, TRUE, "Main entry point", TRUE, BodyMain),
       File(<<>>, "config.json", 900, 2, FALSE, "", FALSE, <<>>),
       File(<<>>, ".hidden.py", 40, 1, FALSE, "Hidden", FALSE, BodyOne),
       File(<<>>, "yarn.lock", 700, 2, FALSE, "lock", FALSE, <<>>),
       File(<<>>, "big.bin", 2000000, 0, TRUE, "", FALSE, <<>>),
       File(<<>>, "edge.md", 1000000, 2, FALSE, "Notes", FALSE, <<>>),
       File(<<"node_modules">>, "index.js", 80, 1, FALSE, "vendored", FALSE, <<>>),
       File(<<".cache">>, "x.py", 30, 1, FALSE, "", FALSE, BodyOne),
       File(<<"a">>, "mod.py", 120, 2, FALSE, "A module", FALSE, BodyPrivate),
       File(<<"a", "b">>, "deep.py", 20, 1, FALSE, "Deep file", FALSE, BodyOne),
       File(<<"a", "b", "c">>, "deeper.py", 20, 1, TRUE, "", FALSE, BodyNone),
       File(<<"a", "build">>, "gen.py", 60, 1, FALSE, "", FALSE, BodyOne),
       File(<<"tests">>, "helper.py", 50, 1, FALSE, "", FALSE, BodyOne),
       File(<<"tests", "unit">>, "util.py", 50, 1, FALSE, "", FALSE, BodyOne),
       File(<<"a">>, "x.spec.ts", 50, 1, FALSE, "", FALSE, <<>>),
       File(<<>>, "test_top.py", 50, 1, FALSE, "", TRUE, BodyOne),
       Unparsable(File(<<>>, "broken.py", 50, 2, FALSE, "Broken", FALSE, <<>>), "SyntaxError"),
       [File(<<>>, "gone.sh", 50, 1, FALSE, "", FALSE, <<>>) EXCEPT !.stat_ok = FALSE],
       [File(<<"a">>, "locked.py", 50, 1, FALSE, "Locked", TRUE, BodyOne) EXCEPT !.read_ok = FALSE],
       Unparsable(File(<<>>, "long.py", 400, 1, FALSE, "", FALSE, <<>>), "RecursionError"),
       File(<<"a">>, "main.py", 50, 1, FALSE, "", FALSE, BodyOne) >>

\* no file
NoFile == File(<<>>, "", 0, 0, FALSE, "", FALSE, <<>>)

FileIds == 1..Len(Universe)

\* the trees of at most MaxFiles files
Trees == {t \in SUBSET FileIds : Cardinality(t) >= 1 /\ Cardinality(t) <= MaxFiles}

\* the roots a run is given: the filesystem root, /proj, /tests
Roots == {<<>>, <<"proj">>, <<"tests">>}

\* ------------------------------------------------------------------ state

VARIABLES
    op,               \* the function under way
    pc,               \* its position
    root,             \* components of the absolute root path
    tree,             \* the files below the root
    max_depth,
    exclude_tests,
    stack,            \* os.walk: the directories still to visit, as components below the root
    entries,          \* list[FileEntry]
    git,              \* what the run of git log gave: NoGit before it is run
    raised,           \* the exception that left the function under way, "" if none
    target,           \* the file extract_python_api is called on, NoFile when it is not
    include_private,
    apis,             \* the ModuleAPIs extracted: at most one when the extractor is called alone
    idx,              \* generate_*: the entry the extraction loop is at
    token_budget,     \* generate_map: [given, n], given false for None
    sections,         \* generate_map: the list of sections
    output,           \* generate_map: the text returned
    report,           \* generate_json: the object serialised, as a list of at most one
    proc              \* main: whether it drives the run, os.path.isdir(root), the value
                      \* returned, and what was written to stdout and stderr

vars == <<proc, op, pc, root, tree, max_depth, exclude_tests, stack, entries, git, raised,
          target, include_private, apis, idx, token_budget, sections, output, report>>

\* the variables of the renderer
rvars == <<idx, token_budget, sections, output, report>>

\* token_budget=None
NoBudget == [given |-> FALSE, n |-> 0]

\* before the subprocess is run
NoGit == [kind |-> "none", stdout |-> <<>>]

\* main while it has not returned; exit_code -1 stands for no value returned yet
Process(via_main, is_dir) ==
    [via_main |-> via_main, is_dir |-> is_dir, exit_code |-> -1, out |-> <<>>, err |-> <<>>]

\* a function called directly, not through main
NoProc == Process(FALSE, TRUE)

\* ---------------------------------------------------------------- collector

\* dirpath as os.walk builds it: top joined with one name after the other
RECURSIVE WalkPath(_, _)
WalkPath(top, d) == IF d = <<>> THEN top ELSE WalkPath(PathJoin(top, Head(d)), Tail(d))

IsPrefix(d, e) == Len(d) <= Len(e) /\ SubSeq(e, 1, Len(d)) = d

\* os.scandir(dirpath): the names of the files and of the directories in it
FileNamesIn(t, d) == {Universe[i].name : i \in {j \in t : Universe[j].dir = d}}

DirNamesIn(t, d) ==
    {Universe[i].dir[Len(d) + 1] : i \in {j \in t : Len(Universe[j].dir) > Len(d) /\ IsPrefix(d, Universe[j].dir)}}

FileAt(t, d, fname) == Universe[CHOOSE i \in t : Universe[i].dir = d /\ Universe[i].name = fname]

\* FileEntry: importance is the fraction num/den, 0.0 on construction
FileEntry(path, rel, size, lines, desc, lang, entry) ==
    [path |-> path, rel_path |-> rel, size |-> size, lines |-> lines, description |-> desc,
     language |-> lang, is_entrypoint |-> entry, importance |-> [num |-> 0, den |-> 1]]

\* _get_description, with the file's text reduced to its leading comment
get_description(f) == IF f.read_ok THEN StrTake(f.doc, 120) ELSE ""

\* sum(1 for _ in f) over the bytes: the terminated lines, and the rest if any
count_lines(f) == IF f.read_ok THEN f.nl + (IF f.tail THEN 1 ELSE 0) ELSE 0

\* the body of the loop over sorted(filenames), for one name: the entry appended, or none
VisitFile_mut_no_size(rt, t, excl, d, fname) ==
    LET f == FileAt(t, d, fname)
        filepath == PathJoin(WalkPath(AbsPath(rt), d), fname)
        lang == detect_language(filepath)
        has_markers == EndsWith(filepath, ".py") /\ f.read_ok /\ f.markers
    IN IF fname \in SKIP_FILES \/ StartsWith(fname, ".") THEN <<>>
       ELSE IF excl /\ is_test_file(filepath) THEN <<>>
       ELSE IF ~f.stat_ok THEN <<>>
       ELSE << FileEntry(filepath, Relpath(filepath, AbsPath(rt)), f.size, count_lines(f),
                         IF lang # "" THEN get_description(f) ELSE "", lang,
                         is_entrypoint(filepath, has_markers)) >>

VisitFile(rt, t, excl, d, fname) ==
    LET f == FileAt(t, d, fname)
        filepath == PathJoin(WalkPath(AbsPath(rt), d), fname)
        lang == detect_language(filepath)
        has_markers == EndsWith(filepath, ".py") /\ f.read_ok /\ f.markers
    IN IF fname \in SKIP_FILES \/ StartsWith(fname, ".") THEN <<>>
       ELSE IF excl /\ is_test_file(filepath) THEN <<>>
       ELSE IF ~f.stat_ok THEN <<>>
       ELSE IF f.size > MAX_FILE_SIZE THEN <<>>
       ELSE << FileEntry(filepath, Relpath(filepath, AbsPath(rt)), f.size, count_lines(f),
                         IF lang # "" THEN get_description(f) ELSE "", lang,
                         is_entrypoint(filepath, has_markers)) >>

RECURSIVE VisitFiles(_, _, _, _, _)
VisitFiles(rt, t, excl, d, fnames) ==
    IF fnames = <<>> THEN <<>>
    ELSE VisitFile(rt, t, excl, d, Head(fnames)) \o VisitFiles(rt, t, excl, d, Tail(fnames))

\* dirnames[:] = [d for d in dirnames if d not in SKIP_DIRS and not d.startswith('.')]
KeptDirNames(names) == {n \in names : n \notin SKIP_DIRS /\ ~StartsWith(n, ".")}

\* depth = dirpath[len(root):].count(os.sep)
WalkDepth(rt, d) == StrCount(StrFrom(WalkPath(AbsPath(rt), d), Len(AbsPath(rt))), SEP)

\* depth > max_depth
TooDeep(depth, limit) == depth > limit

\* discover_files is called: root = os.path.abspath(root), os.walk(root) starts
CallDiscover(o) ==
    /\ pc = "call" /\ op = o
    /\ entries' = <<>>
    /\ stack' = << <<>> >>
    /\ pc' = "walk"
    /\ UNCHANGED <<proc, op, root, tree, max_depth, exclude_tests, git, raised, target, include_private, apis, rvars>>

\* One turn of the loop over os.walk: the next directory, its kept
\* subdirectories (in the order the directory scan gives them) and its files
\* in sorted order.
WalkDir ==
    /\ pc = "walk" /\ stack # <<>>
    /\ LET d == Head(stack)
           dirnames == KeptDirNames(DirNamesIn(tree, d))
       IN IF TooDeep(WalkDepth(root, d), max_depth)
          THEN /\ stack' = Tail(stack)
               /\ UNCHANGED entries
          ELSE /\ entries' = entries \o
                      VisitFiles(root, tree, exclude_tests, d, SortedStrings(FileNamesIn(tree, d)))
               /\ \E order \in Orderings(dirnames) :
                      stack' = [k \in 1..Len(order) |-> d \o <<order[k]>>] \o Tail(stack)
    /\ UNCHANGED <<proc, op, pc, root, tree, max_depth, exclude_tests, git, raised, target, include_private, apis, rvars>>

\* os.walk is exhausted: discover_files returns entries
DiscoverReturn ==
    /\ pc = "walk" /\ stack = <<>>
    /\ pc' = IF op = "discover_files" THEN "done" ELSE "discovered"
    /\ UNCHANGED <<proc, op, root, tree, max_depth, exclude_tests, stack, entries, git, raised, target, include_private, apis, rvars>>

\* discover_files(root, max_depth, exclude_tests) on any tree
InitDiscover ==
    /\ op = "discover_files" /\ pc = "call"
    /\ root \in Roots
    /\ tree \in Trees
    /\ max_depth \in 0..MaxDepthOpt
    /\ exclude_tests \in BOOLEAN
    /\ stack = <<>> /\ entries = <<>>
    /\ git = NoGit /\ raised = ""
    /\ target = NoFile /\ include_private = FALSE /\ apis = <<>>
    /\ proc = NoProc
    /\ idx = 0 /\ token_budget = NoBudget /\ sections = <<>> /\ output = "" /\ report = <<>>

NextDiscover == CallDiscover("discover_files") \/ WalkDir \/ DiscoverReturn

SpecDiscover == InitDiscover /\ [][NextDiscover]_vars

\* ------------------------------------------------- claims on the collector

\* the path of file i relative to the root, from the tree itself
RelOf(i) == Join(Universe[i].dir \o <<Universe[i].name>>, SEP)

\* file i is in the list discover_files has built so far
Returned(i) == \E k \in 1..Len(entries) : entries[k].rel_path = RelOf(i)

HiddenName(n) == SubSeq(n, 1, 1) = "."

\* some directory between the root and file i is a skip directory or hidden
BelowExcludedDir(i) ==
    \E k \in 1..Len(Universe[i].dir) :
        Universe[i].dir[k] \in SKIP_DIRS \/ HiddenName(Universe[i].dir[k])

TooBig(i) == Universe[i].size > 1000000

\* the test naming patterns of the basename
TestName(n) ==
    \/ StartsWith(n, "test_")
    \/ \E suffix \in {"_test.py", "_test.js", ".test.js", ".test.ts", ".spec.js", ".spec.ts"} :
           EndsWith(n, suffix)
    \/ n \in {"test.py", "tests.py"}

\* file i lies directly in a directory, below the root, named for tests
InTestDir(i) ==
    /\ Universe[i].dir # <<>>
    /\ Universe[i].dir[Len(Universe[i].dir)] \in {"test", "tests", "__tests__", "spec", "specs"}

\* file i passes every filter but the test filter and the depth limit
Eligible(i) ==
    /\ ~HiddenName(Universe[i].name)
    /\ Universe[i].name \notin SKIP_FILES
    /\ ~BelowExcludedDir(i)
    /\ Universe[i].stat_ok
    /\ ~TooBig(i)

\* C3: discover_files never lists a hidden file, a lock file, a file below a
\* skip directory or a hidden directory, or a file of more than 1,000,000
\* bytes; and it lists nothing that is not a file of the tree.
C3_Filtering ==
    /\ \A i \in tree :
           (\/ HiddenName(Universe[i].name)
            \/ Universe[i].name \in SKIP_FILES
            \/ BelowExcludedDir(i)
            \/ TooBig(i)) => ~Returned(i)
    /\ \A k \in 1..Len(entries) : \E i \in tree : entries[k].rel_path = RelOf(i)

\* a finished walk over a 2 MB file and a file of exactly 1,000,000 bytes, which is listed
C3_Witness ==
    /\ pc = "done"
    /\ \E i, j \in tree : TooBig(i) /\ Universe[j].size = 1000000 /\ Returned(j) /\ ~Returned(i)

\* C4: no listed file has more than max_depth separators in its relative
\* path, and once the walk is over every file that passes the other filters
\* and has at most max_depth separators is listed.
C4_DepthLimit ==
    /\ \A k \in 1..Len(entries) : StrCount(entries[k].rel_path, SEP) <= max_depth
    /\ pc = "done" =>
           \A i \in tree :
               (/\ Eligible(i)
                /\ Len(Universe[i].dir) <= max_depth
                /\ ~(exclude_tests /\ (TestName(Universe[i].name) \/ InTestDir(i))))
               => Returned(i)

GitOutcomes ==
    { [kind |-> "ok", stdout |-> <<>>],
      [kind |-> "ok", stdout |-> <<"main.py", "", "config.json", "main.py">>],
      [kind |-> "ok", stdout |-> <<" config.json ", "util.py", "config.json", "tool.py", "util.py", "tool.py", "gone.txt">>],
      [kind |-> "nonzero", stdout |-> <<>>],
      [kind |-> "nonzero", stdout |-> <<"config.json">>],
      [kind |-> "timeout", stdout |-> <<>>],
      [kind |-> "missing", stdout |-> <<>>],
      [kind |-> "oserror", stdout |-> <<>>],
      [kind |-> "decode", stdout |-> <<>>] }

\* the exception subprocess.run raises, "" when it returns a result
GitException(g) ==
    CASE g.kind = "timeout" -> "TimeoutExpired"
      [] g.kind = "missing" -> "FileNotFoundError"
      [] g.kind = "oserror" -> "PermissionError"
      [] g.kind = "decode" -> "UnicodeDecodeError"
      [] OTHER -> ""

\* the subclasses of OSError among the exceptions of the model
OSErrors == {"OSError", "FileNotFoundError", "PermissionError", "NotADirectoryError"}

\* except (subprocess.TimeoutExpired, FileNotFoundError, OSError)
ChurnCaught(exc) == exc = "TimeoutExpired" \/ exc = "FileNotFoundError" \/ exc \in OSErrors

\* the churn dict: for every non-blank stripped line of the output, how often it occurs
ChurnKeys(g) ==
    IF GitException(g) # "" THEN {}
    ELSE {Strip(g.stdout[k]) : k \in 1..Len(g.stdout)} \ {""}

ChurnCount(g, path) == Cardinality({k \in 1..Len(g.stdout) : Strip(g.stdout[k]) = path})

\* max(e.lines for e in entries) or 1
MaxOfLines(es) ==
    LET m == CHOOSE x \in {es[k].lines : k \in 1..Len(es)} :
                 \A k \in 1..Len(es) : es[k].lines <= x
    IN IF m = 0 THEN 1 ELSE m

\* max(churn.values()) if churn else 1
MaxChurn(g) ==
    IF ChurnKeys(g) = {} THEN 1
    ELSE LET counts == {ChurnCount(g, p) : p \in ChurnKeys(g)}
         IN CHOOSE x \in counts : \A y \in counts : y <= x

PRIMARY_LANGUAGES == {"Python", "JavaScript", "TypeScript", "Rust", "Go"}

OPS_LANGUAGES == {"Makefile", "Dockerfile", "Shell"}

\* The weights, in hundredths.
W_ENTRYPOINT == 30

W_PRIMARY == 20

W_OPS == 10

W_LINES == 20

W_CHURN == 20

W_ROOT == 10

W_DESCRIPTION == 5

\* the entrypoint term of the sum
EntrypointTerm_mut_none(e, unit) == 0

EntrypointTerm(e, unit) == IF e.is_entrypoint THEN W_ENTRYPOINT * unit ELSE 0

\* the language term of the sum
LanguageTerm_mut_none(e, unit) == 0

LanguageTerm(e, unit) ==
    IF e.language \in PRIMARY_LANGUAGES THEN W_PRIMARY * unit
    ELSE IF e.language \in OPS_LANGUAGES THEN W_OPS * unit ELSE 0

\* min(1.0, score)
Clamp_mut_none(score, unit) == score

Clamp(score, unit) == Min(100 * unit, score)

\* One pass of the loop over entries: the score of e as the fraction
\* num / (100 * ml * mc), every term of the sum brought to that denominator.
ScoreOf(e, ml, mc, g) ==
    LET unit == ml * mc
        score ==
            EntrypointTerm(e, unit)
            + LanguageTerm(e, unit)
            + e.lines * W_LINES * mc
            + (IF e.rel_path \in ChurnKeys(g) THEN ChurnCount(g, e.rel_path) * W_CHURN * ml ELSE 0)
            + (IF StrCount(e.rel_path, SEP) = 0 THEN W_ROOT * unit ELSE 0)
            + (IF e.description # "" THEN W_DESCRIPTION * unit ELSE 0)
    IN [num |-> Clamp(score, unit), den |-> 100 * unit]

Scored(es, g) ==
    [k \in 1..Len(es) |->
        [es[k] EXCEPT !.importance = ScoreOf(es[k], MaxOfLines(es), MaxChurn(g), g)]]

\* a < b for two fractions with positive denominators
FracLess(a, b) == a.num * b.den < b.num * a.den

\* list.sort / sorted with key = -importance: stable, the greatest first
RECURSIVE InsertByImportance(_, _)
InsertByImportance(sorted, e) ==
    IF sorted = <<>> THEN <<e>>
    ELSE IF FracLess(Head(sorted).importance, e.importance)
         THEN <<e>> \o sorted
         ELSE <<Head(sorted)>> \o InsertByImportance(Tail(sorted), e)

RECURSIVE SortByImportance(_)
SortByImportance(es) ==
    IF es = <<>> THEN <<>>
    ELSE InsertByImportance(SortByImportance(SubSeq(es, 1, Len(es) - 1)), es[Len(es)])

\* the length of the key-files shortlist
HOT_LIMIT == 10

\* one entry short
HotList_mut_nine(es) == SubSeq(SortByImportance(es), 1, Min(HOT_LIMIT - 1, Len(es)))

\* hot = sorted(entries, key=lambda e: -e.importance)[:10]
HotList(es) == SubSeq(SortByImportance(es), 1, Min(HOT_LIMIT, Len(es)))

\* _score_importance(entries, root), the git query included: it returns at
\* once on an empty list, an exception of the query that the except clause does
\* not name leaves the function, and otherwise every entry gets its score.
ScoreImportance(g, after) ==
    /\ git' = (IF entries = <<>> THEN git ELSE g)
    /\ IF entries = <<>> THEN
           /\ pc' = after
           /\ UNCHANGED <<entries, raised>>
       ELSE IF GitException(g) # "" /\ ~ChurnCaught(GitException(g)) THEN
           /\ raised' = GitException(g)
           /\ pc' = "raised"
           /\ UNCHANGED entries
       ELSE
           /\ entries' = Scored(entries, g)
           /\ pc' = after
           /\ UNCHANGED raised

\* _score_importance called on its own, as the tests do
Score ==
    /\ op = "score_importance" /\ pc = "call"
    /\ \E g \in GitOutcomes : ScoreImportance(g, "done")
    /\ UNCHANGED <<proc, op, root, tree, max_depth, exclude_tests, stack, target, include_private, apis, rvars>>

\* the relative paths of the hand-built records
RecordPaths == {"main.py", "config.json", "util.py", "tool.py", "a/run.sh"}

\* Largest number of records in a hand-built list.
MaxRecords == 2

\* the records the scorer is given: as the collector builds them, the language
\* and the entrypoint flag are the ones the classifier gives the path and the content
Records ==
    {FileEntry(PathJoin("/proj", p), p, 100, n, d, detect_language(p), is_entrypoint(p, m)) :
        p \in RecordPaths, n \in 0..MaxLines, d \in {"", "doc"}, m \in BOOLEAN}

\* _score_importance(entries, root) on any list of records with distinct relative paths
InitScore ==
    /\ op = "score_importance" /\ pc = "call"
    /\ root = <<"proj">> /\ tree = {} /\ max_depth = 0 /\ exclude_tests = FALSE
    /\ stack = <<>>
    /\ \E n \in 0..MaxRecords :
           /\ entries \in [1..n -> Records]
           /\ \A i, j \in 1..n : entries[i].rel_path = entries[j].rel_path => i = j
    /\ git = NoGit /\ raised = ""
    /\ target = NoFile /\ include_private = FALSE /\ apis = <<>>
    /\ proc = NoProc
    /\ idx = 0 /\ token_budget = NoBudget /\ sections = <<>> /\ output = "" /\ report = <<>>

NextScore == Score

SpecScore == InitScore /\ [][NextScore]_vars

\* ---------------------------------------------------- claims on the scorer

\* the scorer has run over a list that is not empty
ScoredRun == op = "score_importance" /\ pc = "done" /\ entries # <<>>

\* how often the change log names the path, from the output itself
LogCount(path) ==
    IF git.kind \in {"ok", "nonzero"}
    THEN Cardinality({k \in 1..Len(git.stdout) : Strip(git.stdout[k]) = path})
    ELSE 0

\* records a and b agree in everything the score reads but the entrypoint flag
AlikeButEntrypoint(a, b) ==
    /\ a.language = b.language
    /\ a.lines = b.lines
    /\ LogCount(a.rel_path) = LogCount(b.rel_path)
    /\ StrCount(a.rel_path, SEP) = StrCount(b.rel_path, SEP)
    /\ (a.description = "") = (b.description = "")
    /\ a.is_entrypoint /\ ~b.is_entrypoint

\* C6: of two records scored in one run that differ only in the entrypoint
\* flag, the entrypoint has the strictly greater importance.
C6_EntrypointHigher ==
    ScoredRun =>
        \A k, l \in 1..Len(entries) :
            AlikeButEntrypoint(entries[k], entries[l])
                => FracLess(entries[l].importance, entries[k].importance)

\* such a pair where the entrypoint's sum, 1.05, is clamped to 1 and the other scores 0.75
C6_Witness ==
    /\ ScoredRun
    /\ \E k, l \in 1..Len(entries) :
           /\ AlikeButEntrypoint(entries[k], entries[l])
           /\ entries[k].rel_path # entries[l].rel_path
           /\ entries[k].importance.num = entries[k].importance.den
           /\ entries[l].importance.num * 100 = 75 * entries[l].importance.den

\* C7: before and after scoring, every record's importance is in [0, 1].
C7_ImportanceRange ==
    \A k \in 1..Len(entries) :
        /\ entries[k].importance.den > 0
        /\ 0 <= entries[k].importance.num
        /\ entries[k].importance.num <= entries[k].importance.den

\* a scored record whose terms add up to 1.05 and whose importance is 1
C7_Witness ==
    /\ ScoredRun
    /\ \E k \in 1..Len(entries) :
           /\ entries[k].is_entrypoint /\ entries[k].language = "Python"
           /\ entries[k].lines = MaxOfLines(entries) /\ entries[k].description # ""
           /\ entries[k].rel_path = "main.py"
           /\ LogCount("main.py") = 2 /\ git.kind = "ok"
           /\ entries[k].importance.num = entries[k].importance.den

\* k is an entrypoint in a primary language, l is config.json
MainAndConfig(k, l) ==
    /\ entries[k].rel_path = "main.py" /\ entries[k].is_entrypoint
    /\ entries[k].language \in {"Python", "JavaScript", "TypeScript", "Rust", "Go"}
    /\ entries[l].rel_path = "config.json"

\* the positions of record e in list q
PositionsOf(q, e) == {i \in 1..Len(q) : q[i] = e}

\* C8: an entrypoint main.py scores strictly higher than config.json, whatever
\* their line counts, churn and descriptions, and stands before it in the
\* key-files shortlist.
C8_MainBeforeConfig ==
    ScoredRun =>
        \A k, l \in 1..Len(entries) :
            MainAndConfig(k, l) =>
                /\ FracLess(entries[l].importance, entries[k].importance)
                /\ \A i \in PositionsOf(HotList(entries), entries[k]) :
                       \A j \in PositionsOf(HotList(entries), entries[l]) : i < j

\* main.py with no lines, no churn and no description (0.6) against a
\* config.json with the most lines, the most churn and a description (0.55),
\* config.json first in the list
C8_Witness ==
    /\ ScoredRun
    /\ \E k, l \in 1..Len(entries) :
           /\ MainAndConfig(k, l) /\ l < k
           /\ entries[k].importance.num * 100 = 60 * entries[k].importance.den
           /\ entries[l].importance.num * 100 = 55 * entries[l].importance.den
           /\ HotList(entries) = <<entries[k], entries[l]>>

\* C9: whatever way the git query fails, _score_importance returns normally,
\* every record is scored, and churn adds nothing to any score.
C9_ChurnFailureTolerated ==
    (op = "score_importance" /\ git.kind \in {"nonzero", "timeout", "missing", "oserror", "decode"}) =>
        /\ raised = ""
        /\ pc = "done"
        /\ entries = Scored(entries, [kind |-> "ok", stdout |-> <<>>])

\* --------------------------------------------------------------- extractor

\* f(q[1]), f(q[2]), ... for the q[k] that pass the test
MapSeq(q, F(_)) == [k \in 1..Len(q) |-> F(q[k])]

\* one positional parameter: name[: type][ = default]
FormatArg(a) ==
    a.arg \o (IF a.annotation # "" THEN ": " \o a.annotation ELSE "")
          \o (IF a.default # "" THEN " = " \o a.default ELSE "")

\* one keyword-only parameter: name[: type]
FormatKwonly(a) == a.arg \o (IF a.annotation # "" THEN ": " \o a.annotation ELSE "")

\* _format_params: self and cls are left out, *vararg, the keyword-only
\* parameters and **kwarg follow the positional ones
format_params(node) ==
    LET NotSelf(a) == a.arg \notin {"self", "cls"}
    IN Join(MapSeq(SelectSeq(node.args, NotSelf), FormatArg)
            \o (IF node.vararg # "" THEN <<"*" \o node.vararg>> ELSE <<>>)
            \o MapSeq(node.kwonly, FormatKwonly)
            \o (IF node.kwarg # "" THEN <<"**" \o node.kwarg>> ELSE <<>>),
            ", ")

\* the first line of a docstring, stripped, at most 120 characters
FirstLine(doc) ==
    LET text == Strip(doc)
        nl == Find(text, "\n")
    IN StrTake(Strip(IF nl = 0 THEN text ELSE StrTake(text, nl - 1)), 120)

\* _first_docstring_line of a module: its first statement, if a string constant
module_docstring(body) ==
    IF body # <<>> /\ body[1].kind = "Expr" THEN FirstLine(body[1].doc) ELSE ""

\* the texts of the decorators ast.unparse renders
RenderedDecorators(node) ==
    LET Renders(d) == d.renders
        Text(d) == d.text
    IN MapSeq(SelectSeq(node.decorators, Renders), Text)

IsFunction(node) == node.kind \in {"FunctionDef", "AsyncFunctionDef"}

\* module.split('.')[0]
FirstSegment(dotted) ==
    LET dot == Find(dotted, ".") IN IF dot = 0 THEN dotted ELSE StrTake(dotted, dot - 1)

\* not include_private and name.startswith('_')
Private_mut_ignore_option(name, incl) == StartsWith(name, "_")

Private(name, incl) == ~incl /\ StartsWith(name, "_")

\* FunctionSig of a module-level function
FunctionSig(node) ==
    [name |-> node.name, params |-> format_params(node), returns |-> node.returns,
     docstring |-> FirstLine(node.doc), is_async |-> node.kind = "AsyncFunctionDef",
     decorators |-> RenderedDecorators(node), class_name |-> ""]

\* FunctionSig of a method: no decorators are collected, the class is named
MethodSig(node, cls) ==
    [name |-> node.name, params |-> format_params(node), returns |-> node.returns,
     docstring |-> FirstLine(node.doc), is_async |-> node.kind = "AsyncFunctionDef",
     decorators |-> <<>>, class_name |-> cls]

\* the parameters of the last __init__ of a class body, "" without one
InitParams(body) ==
    LET inits == {k \in 1..Len(body) : IsFunction(body[k]) /\ body[k].name = "__init__"}
    IN IF inits = {} THEN ""
       ELSE format_params(body[CHOOSE k \in inits : \A j \in inits : j <= k])

\* __init__ treated as any other method
ClassSig_mut_init_listed(node, incl) ==
    LET Listed(child) == IsFunction(child) /\ ~Private(child.name, incl)
        Sig(child) == MethodSig(child, node.name)
    IN [name |-> node.name, bases |-> node.bases, docstring |-> FirstLine(node.doc),
        methods |-> MapSeq(SelectSeq(node.body, Listed), Sig),
        init_params |-> InitParams(node.body)]

\* ClassSig: __init__ gives init_params, the other methods are filtered like functions
ClassSig(node, incl) ==
    LET Listed(child) ==
            IsFunction(child) /\ child.name # "__init__" /\ ~Private(child.name, incl)
        Sig(child) == MethodSig(child, node.name)
    IN [name |-> node.name, bases |-> node.bases, docstring |-> FirstLine(node.doc),
        methods |-> MapSeq(SelectSeq(node.body, Listed), Sig),
        init_params |-> InitParams(node.body)]

\* relative from-imports left out
ImportsOf_mut_no_relative(node) ==
    IF node.kind = "Import" THEN {FirstSegment(node.names[k]) : k \in 1..Len(node.names)}
    ELSE IF node.kind = "ImportFrom" /\ node.module # "" /\ node.level = 0
         THEN {FirstSegment(node.module)}
    ELSE {}

\* the names an import statement adds to api.imports
ImportsOf(node) ==
    IF node.kind = "Import" THEN {FirstSegment(node.names[k]) : k \in 1..Len(node.names)}
    ELSE IF node.kind = "ImportFrom" /\ node.module # "" /\ ~StartsWith(node.module, ".")
         THEN {FirstSegment(node.module)}
    ELSE {}

\* the strings of every top-level __all__ = [...] in turn
RECURSIVE ExportsOf(_)
ExportsOf(body) ==
    IF body = <<>> THEN <<>>
    ELSE (IF Head(body).kind = "Assign" /\ Head(body).name = "__all__"
          THEN Head(body).names ELSE <<>>) \o ExportsOf(Tail(body))

\* the exception read_text or ast.parse raises on the file, "" when both succeed
ParseException(f) ==
    IF ~f.read_ok THEN "PermissionError" ELSE IF ~f.parse_ok THEN f.parse_error ELSE ""

\* SyntaxError and its subclasses
SyntaxErrors == {"SyntaxError", "IndentationError", "TabError"}

\* except (SyntaxError, OSError)
ParseCaught(exc) == exc \in SyntaxErrors \/ exc \in OSErrors

\* the exception that leaves extract_python_api, "" when it returns
ParseEscapes(f) ==
    IF ParseException(f) # "" /\ ~ParseCaught(ParseException(f)) THEN ParseException(f) ELSE ""

\* extract_python_api(filepath, include_private) when it returns: None when the
\* file cannot be read or parsed, else the ModuleAPI, as a list of at most one
extract_python_api(f, incl) ==
    IF ParseException(f) # "" THEN <<>>
    ELSE LET ListedFunction(node) == IsFunction(node) /\ ~Private(node.name, incl)
             ListedClass(node) == node.kind = "ClassDef" /\ ~Private(node.name, incl)
             Sig(node) == ClassSig(node, incl)
         IN << [path |-> f.name,
                docstring |-> module_docstring(f.body),
                exports |-> ExportsOf(f.body),
                imports |-> SortedStrings(UNION {ImportsOf(f.body[k]) : k \in 1..Len(f.body)}),
                functions |-> MapSeq(SelectSeq(f.body, ListedFunction), FunctionSig),
                classes |-> MapSeq(SelectSeq(f.body, ListedClass), Sig)] >>

\* extract_python_api called on its own, as the tests do
Extract ==
    /\ op = "extract_python_api" /\ pc = "call"
    /\ IF ParseEscapes(target) # ""
       THEN /\ raised' = ParseEscapes(target)
            /\ pc' = "raised"
            /\ UNCHANGED apis
       ELSE /\ apis' = extract_python_api(target, include_private)
            /\ pc' = "done"
            /\ UNCHANGED raised
    /\ UNCHANGED <<proc, op, root, tree, max_depth, exclude_tests, stack, entries, git,
                   target, include_private, rvars>>

\* Largest number of top-level statements of a source given to the extractor alone.
MaxNodes == 3

\* the top-level statements those sources are made of
Statements ==
    { [Def("run") EXCEPT !.args = <<Arg("argv", "list", "None")>>, !.returns = "int"],
      Def("_helper"),
      [AsyncDef("serve") EXCEPT
          !.decorators = <<Decorator("app.route"), [Decorator("?") EXCEPT !.renders = FALSE],
                           Decorator("cache")>>],
      ClassApp,
      Node("ClassDef", "_Hidden"),
      [Node("Import", "") EXCEPT !.names = <<"os.path">>],
      [Node("ImportFrom", "") EXCEPT !.module = "yaml.loader"],
      [Node("ImportFrom", "") EXCEPT !.module = "sibling.x", !.level = 1],
      [Node("ImportFrom", "") EXCEPT !.level = 1],
      Node("If", "") }

\* extract_python_api on any source of at most MaxNodes statements, parsable or not
InitExtract ==
    /\ op = "extract_python_api" /\ pc = "call"
    /\ root = <<"proj">> /\ tree = {} /\ max_depth = 0 /\ exclude_tests = FALSE
    /\ stack = <<>> /\ entries = <<>>
    /\ git = NoGit /\ raised = ""
    /\ \E n \in 0..MaxNodes : \E body \in [1..n -> Statements] :
           \/ target = File(<<>>, "mod.py", 100, n, FALSE, "", FALSE, body)
           \/ \E exc \in {"SyntaxError", "RecursionError"} :
                  target = Unparsable(File(<<>>, "mod.py", 100, n, FALSE, "", FALSE, body), exc)
    /\ include_private \in BOOLEAN
    /\ apis = <<>>
    /\ proc = NoProc
    /\ idx = 0 /\ token_budget = NoBudget /\ sections = <<>> /\ output = "" /\ report = <<>>

NextExtract == Extract

SpecExtract == InitExtract /\ [][NextExtract]_vars

\* -------------------------------------------------- claims on the extractor

\* the extractor has returned a ModuleAPI
Extracted == op = "extract_python_api" /\ pc = "done" /\ apis # <<>>

\* the k-th smallest element of a set of numbers
Kth(S, k) == CHOOSE i \in S : Cardinality({j \in S : j <= i}) = k

\* the names at the positions pos of the body, in source order
NamesAt(body, pos) == [k \in 1..Cardinality(pos) |-> body[Kth(pos, k)].name]

\* the names of a list of signatures
NamesOf(sigs) == [k \in 1..Len(sigs) |-> sigs[k].name]

Underscored(name) == SubSeq(name, 1, 1) = "_"

\* C10: the module-level functions extracted are, in source order, the
\* top-level functions without a leading underscore, or all of them with
\* include_private; the same holds of the top-level classes.
C10_VisibilityFilter ==
    Extracted =>
        LET body == target.body
            funcs == {k \in 1..Len(body) :
                         /\ body[k].kind \in {"FunctionDef", "AsyncFunctionDef"}
                         /\ (include_private \/ ~Underscored(body[k].name))}
            classes == {k \in 1..Len(body) :
                           /\ body[k].kind = "ClassDef"
                           /\ (include_private \/ ~Underscored(body[k].name))}
        IN /\ NamesOf(apis[1].functions) = NamesAt(body, funcs)
           /\ NamesOf(apis[1].classes) = NamesAt(body, classes)

\* one underscored and one plain function: one is extracted by default
C10_Witness ==
    /\ Extracted /\ ~include_private
    /\ NamesAt(target.body, {k \in 1..Len(target.body) : target.body[k].kind = "FunctionDef"})
           = <<"_helper", "run">>
    /\ NamesOf(apis[1].functions) = <<"run">>

\* ---------------------------------------------------------------- renderer
\* In the texts below "+-- ", "|-- " and "|   " stand for the box-drawing
\* connectors, "-" for the dash, "*" for the star, ">" for the arrow and "~~~"
\* for the code fence: one character for each character of the source.

\* q without the elements that occurred before
Dedupe(q) ==
    LET firsts == {k \in 1..Len(q) : \A j \in 1..(k - 1) : q[j] # q[k]}
    IN [k \in 1..Cardinality(firsts) |->
           q[CHOOSE i \in firsts : Cardinality({j \in firsts : j <= i}) = k]]

\* sorted(entries, key=lambda e: e.rel_path)
RECURSIVE InsertByPath(_, _)
InsertByPath(sorted, e) ==
    IF sorted = <<>> THEN <<e>>
    ELSE IF StrLess(e.rel_path, Head(sorted).rel_path) THEN <<e>> \o sorted
    ELSE <<Head(sorted)>> \o InsertByPath(Tail(sorted), e)

RECURSIVE SortByPath(_)
SortByPath(es) ==
    IF es = <<>> THEN <<>>
    ELSE InsertByPath(SortByPath(SubSeq(es, 1, Len(es) - 1)), es[Len(es)])

\* the keys of the nested dict at the directory P, in insertion order
TreeItems(rows, P) ==
    LET Under(e) == Len(SplitPath(e.rel_path)) > Len(P) /\ IsPrefix(P, SplitPath(e.rel_path))
        Key(e) == SplitPath(e.rel_path)[Len(P) + 1]
    IN Dedupe(MapSeq(SelectSeq(rows, Under), Key))

\* _render: the lines of the items from the i-th on of the directory P
RECURSIVE RenderItems(_, _, _, _, _)
RenderItems(rows, P, prefix, items, i) ==
    IF i > Len(items) THEN <<>>
    ELSE LET name == items[i]
             is_last == i = Len(items)
             connector == IF is_last THEN "+-- " ELSE "|-- "
             extension == IF is_last THEN "    " ELSE "|   "
             files == {k \in 1..Len(rows) : SplitPath(rows[k].rel_path) = P \o <<name>>}
             val == rows[CHOOSE k \in files : TRUE]
         IN (IF files # {}
             THEN << prefix \o connector \o (IF val.is_entrypoint THEN "* " ELSE "") \o name
                     \o (IF val.description # "" THEN "  - " \o val.description ELSE "") >>
             ELSE << prefix \o connector \o name \o "/" >>
                  \o RenderItems(rows, P \o <<name>>, prefix \o extension,
                                 TreeItems(rows, P \o <<name>>), 1))
            \o RenderItems(rows, P, prefix, items, i + 1)

\* _format_tree(entries, max_depth)
format_tree(es, depth) ==
    LET Shallow(e) == Len(SplitPath(e.rel_path)) <= depth + 1
        rows == SelectSeq(SortByPath(es), Shallow)
    IN Join(RenderItems(rows, <<>>, "", TreeItems(rows, <<>>), 1), "\n")

\* the line of a function or a method, after its indentation
SigLine(f) ==
    (IF f.is_async THEN "async " ELSE "") \o "def " \o f.name \o "(" \o f.params \o ")"
    \o (IF f.returns # "" THEN " > " \o f.returns ELSE "")
    \o (IF f.docstring # "" THEN "  # " \o f.docstring ELSE "")

\* the lines of one class
ClassLines(c) ==
    LET Line(m) == "    " \o SigLine(m)
    IN << "  class " \o c.name
          \o (IF c.bases # <<>> THEN "(" \o Join(c.bases, ", ") \o ")" ELSE "")
          \o (IF c.docstring # "" THEN "  # " \o c.docstring ELSE "") >>
       \o (IF c.init_params # "" THEN << "    __init__(" \o c.init_params \o ")" >> ELSE <<>>)
       \o MapSeq(c.methods, Line)

\* q[1] \o q[2] \o ... for a sequence of sequences
RECURSIVE Flatten(_)
Flatten(q) == IF q = <<>> THEN <<>> ELSE Head(q) \o Flatten(Tail(q))

\* the lines of one module, none when it has neither function nor class
ApiLines(api) ==
    LET Line(f) == "  " \o SigLine(f)
    IN IF api.functions = <<>> /\ api.classes = <<>> THEN <<>>
       ELSE << "\n### " \o api.path >>
            \o (IF api.docstring # "" THEN << "*" \o api.docstring \o "*" >> ELSE <<>>)
            \o (IF api.exports # <<>> THEN << "Exports: " \o Join(api.exports, ", ") >> ELSE <<>>)
            \o MapSeq(api.functions, Line)
            \o Flatten(MapSeq(api.classes, ClassLines))

\* _format_api(apis)
format_api(as) == Join(Flatten(MapSeq(as, ApiLines)), "\n")

STDLIB ==
    {"os", "sys", "re", "json", "csv", "ast", "math", "hashlib", "pathlib", "datetime",
     "collections", "typing", "dataclasses", "argparse", "textwrap", "subprocess",
     "unittest", "functools", "itertools", "io", "abc", "enum", "copy", "shutil", "glob",
     "tempfile", "logging", "warnings", "http", "urllib", "socket", "ssl", "email", "html",
     "xml", "sqlite3", "threading", "multiprocessing", "asyncio", "concurrent",
     "contextlib", "inspect", "dis", "importlib", "pkgutil", "struct", "time"}

\* all_imports[imp]: the number of modules of the list that import imp
DepCount(as, imp) == Cardinality({k \in 1..Len(as) : imp \in Range(as[k].imports)})

\* the keys of all_imports in insertion order
DepKeys(as) ==
    LET ThirdParty(imp) == imp \notin STDLIB
        Imports(api) == SelectSeq(api.imports, ThirdParty)
    IN Dedupe(Flatten(MapSeq(as, Imports)))

\* sorted(all_imports.items(), key=lambda x: -x[1]): stable, the greatest count first
RECURSIVE InsertDep(_, _, _)
InsertDep(as, sorted, dep) ==
    IF sorted = <<>> THEN <<dep>>
    ELSE IF DepCount(as, Head(sorted)) < DepCount(as, dep) THEN <<dep>> \o sorted
    ELSE <<Head(sorted)>> \o InsertDep(as, Tail(sorted), dep)

RECURSIVE SortDeps(_, _)
SortDeps(as, keys) ==
    IF keys = <<>> THEN <<>>
    ELSE InsertDep(as, SortDeps(as, SubSeq(keys, 1, Len(keys) - 1)), keys[Len(keys)])

\* _format_deps(apis)
format_deps(as) ==
    LET Line(dep) == "  " \o dep \o " (used by " \o ToString(DepCount(as, dep)) \o " module"
                     \o (IF DepCount(as, dep) > 1 THEN "s" ELSE "") \o ")"
    IN IF DepKeys(as) = <<>> THEN "No third-party dependencies detected."
       ELSE Join(MapSeq(SortDeps(as, DepKeys(as)), Line), "\n")

\* a number below 1000 in three digits
ThreeDigits(n) == (IF n < 10 THEN "00" ELSE IF n < 100 THEN "0" ELSE "") \o ToString(n)

\* format(n, ",")
RECURSIVE Thousands(_)
Thousands(n) ==
    IF n < 1000 THEN ToString(n) ELSE Thousands(n \div 1000) \o "," \o ThreeDigits(n % 1000)

RECURSIVE SumLines(_)
SumLines(es) == IF es = <<>> THEN 0 ELSE Head(es).lines + SumLines(Tail(es))

\* sorted(set(e.language for e in entries if e.language))
Languages(es) == SortedStrings({es[k].language : k \in 1..Len(es)} \ {""})

\* every path, flagged or not
Entrypoints_mut_all(es) == [k \in 1..Len(es) |-> es[k].rel_path]

\* [e.rel_path for e in entries if e.is_entrypoint]
Entrypoints(es) ==
    LET Flagged(e) == e.is_entrypoint
        Path(e) == e.rel_path
    IN MapSeq(SelectSeq(es, Flagged), Path)

\* os.path.basename(os.path.abspath(root))
ProjectName(rt) == Basename(AbsPath(rt))

\* the truncation marker
TRUNCATION_MARKER == "\n\n... (truncated to fit token budget)"

\* the list of sections generate_map builds
Sections(rt, es, as, depth) ==
    LET HotLine(h) ==
            "- **" \o h.rel_path \o "**" \o (IF h.is_entrypoint THEN " *" ELSE "")
            \o " (" \o ToString(h.lines) \o " lines)"
            \o (IF h.description # "" THEN " - " \o h.description ELSE "")
    IN << "# Codebase Map: " \o ProjectName(rt) \o "\n",
          "Files: " \o ToString(Len(es)) \o " | Lines: " \o Thousands(SumLines(es))
              \o " | Languages: " \o Join(Languages(es), ", ") >>
       \o (IF Entrypoints(es) # <<>>
           THEN << "Entrypoints: " \o Join(Entrypoints(es), ", ") >> ELSE <<>>)
       \o << "", "## Structure\n", "~~~", format_tree(es, depth), "~~~\n" >>
       \o (IF format_api(as) # ""
           THEN << "## Public API\n", "~~~python", format_api(as), "~~~\n" >> ELSE <<>>)
       \o << "## Dependencies\n", format_deps(as), "" >>
       \o (IF HotList(es) # <<>>
           THEN << "## Key Files\n" >> \o MapSeq(HotList(es), HotLine) \o << "" >> ELSE <<>>)

\* some section starts with "## Public API"
HasApiSection(secs) == \E k \in 1..Len(secs) : StartsWith(secs[k], "## Public API")

\* the token budget trimming: budget.given is false for None
Trimmed(secs, budget) ==
    LET joined == Join(secs, "\n")
    IN IF budget.given /\ budget.n # 0
          /\ Len(joined) \div CHARS_PER_TOKEN > budget.n
          /\ HasApiSection(secs)
          /\ Len(joined) > budget.n * CHARS_PER_TOKEN
       THEN StrTake(joined, budget.n * CHARS_PER_TOKEN) \o TRUNCATION_MARKER
       ELSE joined

\* --------------------------------------------- generate_map, generate_json

\* the token budgets tried, None among them
Budgets == {NoBudget} \cup {[given |-> TRUE, n |-> b] : b \in {1, 30, 1000}}

\* what the git query gives in the runs of the whole pipeline
PipelineGit ==
    {g \in GitOutcomes : g.kind \in {"ok", "timeout", "decode"}}

\* generate_map: if not entries: return "No files found."
NoFiles ==
    /\ op = "generate_map" /\ pc = "discovered" /\ entries = <<>>
    /\ output' = "No files found."
    /\ pc' = "done"
    /\ UNCHANGED <<proc, op, root, tree, max_depth, exclude_tests, stack, entries, git, raised,
                   target, include_private, apis, idx, token_budget, sections, report>>

\* _score_importance(entries, root)
ScoreStage ==
    /\ op \in {"generate_map", "generate_json"} /\ pc = "discovered"
    /\ op = "generate_map" => entries # <<>>
    /\ \E g \in PipelineGit : ScoreImportance(g, "scored")
    /\ UNCHANGED <<proc, op, root, tree, max_depth, exclude_tests, stack, target, include_private,
                   apis, rvars>>

\* the loop starts on the records in the order they were collected
SortStage_mut_unsorted ==
    /\ pc = "scored"
    /\ entries' = entries
    /\ include_private' \in BOOLEAN
    /\ apis' = <<>>
    /\ idx' = 1
    /\ pc' = "extract"
    /\ UNCHANGED <<proc, op, root, tree, max_depth, exclude_tests, stack, git, raised, target,
                   token_budget, sections, output, report>>

\* entries.sort(key=lambda e: -e.importance); include_private is first read by
\* the loop that follows, and is drawn here
SortStage ==
    /\ pc = "scored"
    /\ entries' = SortByImportance(entries)
    /\ include_private' \in BOOLEAN
    /\ apis' = <<>>
    /\ idx' = 1
    /\ pc' = "extract"
    /\ UNCHANGED <<proc, op, root, tree, max_depth, exclude_tests, stack, git, raised, target,
                   token_budget, sections, output, report>>

\* the file of the tree at an absolute path
FileOfPath(rt, t, path) ==
    Universe[CHOOSE i \in t :
        PathJoin(WalkPath(AbsPath(rt), Universe[i].dir), Universe[i].name) = path]

\* generate_map keeps an api with a function or a class; generate_json keeps every api
KeepApi(o, api) == o = "generate_json" \/ api.functions # <<>> \/ api.classes # <<>>

\* One turn of the loop over entries: a .py entry is extracted, and a result
\* that is kept gets the entry's relative path and joins apis.
ExtractNext ==
    /\ pc = "extract" /\ idx <= Len(entries)
    /\ LET entry == entries[idx]
           source == FileOfPath(root, tree, entry.path)
           got == IF EndsWith(entry.rel_path, ".py")
                  THEN extract_python_api(source, include_private)
                  ELSE <<>>
       IN IF EndsWith(entry.rel_path, ".py") /\ ParseEscapes(source) # ""
          THEN /\ raised' = ParseEscapes(source)
               /\ pc' = "raised"
               /\ UNCHANGED <<apis, idx>>
          ELSE /\ apis' = IF got # <<>> /\ KeepApi(op, got[1])
                          THEN Append(apis, [got[1] EXCEPT !.path = entry.rel_path])
                          ELSE apis
               /\ idx' = idx + 1
               /\ UNCHANGED <<pc, raised>>
    /\ UNCHANGED <<proc, op, root, tree, max_depth, exclude_tests, stack, entries, git,
                   target, include_private, token_budget, sections, output, report>>

\* generate_map from the metadata on: the sections are built and joined, and
\* the token budget, first read here, is applied
RenderMap ==
    /\ op = "generate_map" /\ pc = "extract" /\ idx > Len(entries)
    /\ \E b \in Budgets :
           /\ token_budget' = b
           /\ sections' = Sections(root, entries, apis, max_depth)
           /\ output' = Trimmed(Sections(root, entries, apis, max_depth), b)
    /\ pc' = "done"
    /\ UNCHANGED <<proc, op, root, tree, max_depth, exclude_tests, stack, entries, git, raised,
                   target, include_private, apis, idx, report>>

\* round(importance, 3), in thousandths
Round3(f) == (2000 * f.num + f.den) \div (2 * f.den)

\* generate_json from the project name on: the object given to json.dumps
RenderJson ==
    /\ op = "generate_json" /\ pc = "extract" /\ idx > Len(entries)
    /\ LET TreeRow(e) ==
               [path |-> e.rel_path, lines |-> e.lines, language |-> e.language,
                description |-> e.description, importance |-> Round3(e.importance),
                entrypoint |-> e.is_entrypoint]
           Listed(a) == a.functions # <<>> \/ a.classes # <<>>
       IN report' = << [project |-> ProjectName(root),
                        files |-> Len(entries),
                        total_lines |-> SumLines(entries),
                        languages |-> Languages(entries),
                        entrypoints |-> Entrypoints(entries),
                        file_tree |-> MapSeq(entries, TreeRow),
                        api |-> SelectSeq(apis, Listed)] >>
    /\ pc' = "done"
    /\ UNCHANGED <<proc, op, root, tree, max_depth, exclude_tests, stack, entries, git, raised,
                   target, include_private, apis, idx, token_budget, sections, output>>

\* the roots of the runs of the whole pipeline
PipelineRoots == {<<"proj">>, <<"tests">>}

\* the files of the trees the whole pipeline is run on: main.py, config.json,
\* big.bin, a/mod.py, tests/helper.py, a/x.spec.ts, broken.py, a/locked.py,
\* long.py, a/main.py
PipelineFiles == {1, 2, 5, 9, 13, 15, 17, 19, 20, 21}

PipelineTrees == {t \in Trees : t \subseteq PipelineFiles}

\* generate_map or generate_json on any such tree
Init ==
    /\ op \in {"generate_map", "generate_json"} /\ pc = "call"
    /\ root \in PipelineRoots
    /\ tree \in PipelineTrees
    /\ max_depth \in 0..MaxDepthOpt
    /\ exclude_tests \in BOOLEAN
    /\ stack = <<>> /\ entries = <<>>
    /\ git = NoGit /\ raised = ""
    /\ target = NoFile /\ include_private = FALSE /\ apis = <<>>
    /\ proc = NoProc
    /\ idx = 0 /\ token_budget = NoBudget /\ sections = <<>> /\ output = "" /\ report = <<>>

Next ==
    \/ CallDiscover("generate_map")
    \/ CallDiscover("generate_json")
    \/ WalkDir
    \/ DiscoverReturn
    \/ NoFiles
    \/ ScoreStage
    \/ SortStage
    \/ ExtractNext
    \/ RenderMap
    \/ RenderJson

Spec == Init /\ [][Next]_vars

\* ------------------------------------------- the renderer of the map alone

\* Largest number of ranked records given to the renderer alone.
MaxRanked == 11

\* the names of those records: Markdown files in the root
RankedNames ==
    <<"a.md", "b.md", "c.md", "d.md", "e.md", "f.md", "g.md", "h.md", "i.md", "j.md",
      "k.md", "l.md", "m.md">>

\* n records as the collector builds them, every m-th one (from the r-th on) with
\* a description
Collected(n, m, r) ==
    [k \in 1..n |->
        FileEntry(PathJoin("/proj", RankedNames[k]), RankedNames[k], 100, 1,
                  IF k % m = r THEN "doc" ELSE "", detect_language(RankedNames[k]),
                  is_entrypoint(RankedNames[k], FALSE))]

\* generate_map at the end of its extraction loop, over such records scored
\* without churn data and sorted; there is no Python source among them
InitRender ==
    /\ op = "generate_map" /\ pc = "extract"
    /\ root = <<"proj">> /\ tree = {} /\ max_depth = MaxDepthOpt /\ exclude_tests = FALSE
    /\ stack = <<>>
    /\ git = [kind |-> "ok", stdout |-> <<>>] /\ raised = ""
    /\ \E n \in 0..Min(MaxRanked, Len(RankedNames)) : \E m \in 1..3 : \E r \in 0..(m - 1) :
           entries = SortByImportance(Scored(Collected(n, m, r), git))
    /\ target = NoFile /\ include_private = FALSE /\ apis = <<>>
    /\ proc = NoProc
    /\ idx = Len(entries) + 1
    /\ token_budget = NoBudget /\ sections = <<>> /\ output = "" /\ report = <<>>

NextRender == RenderMap

SpecRender == InitRender /\ [][NextRender]_vars

\* ------------------------------------------------------------------- main

\* main after parse_args: a root that is not a directory gets a message on
\* stderr and the value 1; otherwise the function the format names is called
MainCheck ==
    /\ proc.via_main /\ pc = "main"
    /\ IF ~proc.is_dir
       THEN /\ proc' = [proc EXCEPT !.err = Append(@, "Error: path is not a directory"),
                                    !.exit_code = 1]
            /\ pc' = "exited"
       ELSE /\ pc' = "call"
            /\ UNCHANGED proc
    /\ UNCHANGED <<op, root, tree, max_depth, exclude_tests, stack, entries, git, raised,
                   target, include_private, apis, rvars>>

\* main prints what generate_json or generate_map returned and returns 0
MainPrint ==
    /\ proc.via_main /\ pc = "done"
    /\ proc' = [proc EXCEPT !.out = Append(@, IF op = "generate_json"
                                               THEN [json |-> report[1]]
                                               ELSE [text |-> output]),
                            !.exit_code = 0]
    /\ pc' = "exited"
    /\ UNCHANGED <<op, root, tree, max_depth, exclude_tests, stack, entries, git, raised,
                   target, include_private, apis, rvars>>

\* main(argv) on a path that is a directory with any such tree, or is none
InitMain ==
    /\ op \in {"generate_map", "generate_json"} /\ pc = "main"
    /\ root = <<"proj">>
    /\ \/ proc = Process(TRUE, TRUE) /\ tree \in PipelineTrees
       \/ proc = Process(TRUE, FALSE) /\ tree = {}
    /\ max_depth \in 0..MaxDepthOpt
    /\ exclude_tests \in BOOLEAN
    /\ stack = <<>> /\ entries = <<>>
    /\ git = NoGit /\ raised = ""
    /\ target = NoFile /\ include_private = FALSE /\ apis = <<>>
    /\ idx = 0 /\ token_budget = NoBudget /\ sections = <<>> /\ output = "" /\ report = <<>>

NextMain ==
    \/ MainCheck
    \/ CallDiscover("generate_map")
    \/ CallDiscover("generate_json")
    \/ WalkDir
    \/ DiscoverReturn
    \/ NoFiles
    \/ ScoreStage
    \/ SortStage
    \/ ExtractNext
    \/ RenderMap
    \/ RenderJson
    \/ MainPrint

SpecMain == InitMain /\ [][NextMain]_vars

\* --------------------------------------------------- claims on the renderer

\* generate_map has returned with a token budget configured
BudgetedMap == op = "generate_map" /\ pc = "done" /\ token_budget.given

\* C1: with a token budget B the text generate_map returns has at most
\* 4*B characters plus the length of the truncation marker, with or without a
\* Public API section.
C1_BudgetBound ==
    BudgetedMap =>
        Len(output) <= 4 * token_budget.n + Len("\n\n... (truncated to fit token budget)")

\* C2: with a token budget B, if the length of the assembled output divided by
\* 4 exceeds B the text returned is its first 4*B characters and the marker,
\* and otherwise it is the assembled output itself.
C2_BudgetEnforced ==
    (BudgetedMap /\ sections # <<>>) =>
        LET assembled == Join(sections, "\n")
        IN IF Len(assembled) \div 4 > token_budget.n
           THEN output = StrTake(assembled, 4 * token_budget.n)
                             \o "\n\n... (truncated to fit token budget)"
           ELSE output = assembled


\* --------------------------------------------------- claims on the pipeline

\* generate_map or generate_json has reached its extraction loop
Extracting == op \in {"generate_map", "generate_json"} /\ idx >= 1

\* the file of the tree an entry was built from
SourceOf(e) == FileOfPath(root, tree, e.path)

\* the entry is a Python source that is read and that ast.parse fails on
FailsToParse(e) ==
    EndsWith(e.rel_path, ".py") /\ SourceOf(e).read_ok /\ ~SourceOf(e).parse_ok

\* the entry is a Python source that is read and parsed
Parses(e) ==
    EndsWith(e.rel_path, ".py") /\ SourceOf(e).read_ok /\ SourceOf(e).parse_ok

\* C11: a source that fails to parse gives no ModuleAPI and no api entry, no
\* exception leaves the extraction loop, the file stays in file_tree with its
\* record as it was, and every other source that parses is extracted.
C11_ParseFailureSkipped ==
    Extracting =>
        /\ pc # "raised"
        /\ \A k \in 1..Len(entries) :
               FailsToParse(entries[k]) =>
                   \A j \in 1..Len(apis) : apis[j].path # entries[k].rel_path
        /\ (pc = "done" /\ op = "generate_json") =>
               /\ Len(report[1].file_tree) = Len(entries)
               /\ \A k \in 1..Len(entries) :
                      /\ report[1].file_tree[k].path = entries[k].rel_path
                      /\ report[1].file_tree[k].lines = entries[k].lines
                      /\ report[1].file_tree[k].language = entries[k].language
                      /\ report[1].file_tree[k].description = entries[k].description
                      /\ report[1].file_tree[k].entrypoint = entries[k].is_entrypoint
                      /\ Parses(entries[k]) =>
                             \E j \in 1..Len(apis) : apis[j].path = entries[k].rel_path


\* C12: the api array of the JSON output holds exactly one entry for every
\* source that was read and parsed, the modules without any extracted function
\* or class included.
C12_JsonApiComplete ==
    (op = "generate_json" /\ pc = "done") =>
        \A k \in 1..Len(entries) :
            Parses(entries[k]) =>
                Cardinality({j \in 1..Len(report[1].api) :
                                report[1].api[j].path = entries[k].rel_path}) = 1


\* C13: no two records of the collector share a rel_path, and no two file_tree
\* entries of the JSON output share a path.
C13_UniquePaths ==
    /\ \A i, j \in 1..Len(entries) : entries[i].rel_path = entries[j].rel_path => i = j
    /\ \A r \in Range(report) :
           \A i, j \in 1..Len(r.file_tree) : r.file_tree[i].path = r.file_tree[j].path => i = j

\* a JSON report over two files of the same name in different directories
C13_Witness ==
    /\ op = "generate_json" /\ pc = "done"
    /\ \E i, j \in 1..Len(report[1].file_tree) :
           /\ i # j
           /\ Basename(report[1].file_tree[i].path) = Basename(report[1].file_tree[j].path)

\* The run whose walk takes the subdirectories of every directory in sorted
\* order: the records it collects, from the directories on the stack on.
RECURSIVE WalkSorted(_)
WalkSorted(stk) ==
    IF stk = <<>> THEN <<>>
    ELSE LET d == Head(stk)
             subdirs == SortedStrings(KeptDirNames(DirNamesIn(tree, d)))
         IN IF TooDeep(WalkDepth(root, d), max_depth) THEN WalkSorted(Tail(stk))
            ELSE VisitFiles(root, tree, exclude_tests, d, SortedStrings(FileNamesIn(tree, d)))
                 \o WalkSorted([k \in 1..Len(subdirs) |-> d \o <<subdirs[k]>>] \o Tail(stk))

\* its records after scoring with the churn data of this run and sorting
SortedRunEntries == SortByImportance(Scored(WalkSorted(<< <<>> >>), git))

\* the extraction loop over a list of records, when no exception leaves it
RECURSIVE ExtractAll(_)
ExtractAll(es) ==
    IF es = <<>> THEN <<>>
    ELSE LET got == IF EndsWith(Head(es).rel_path, ".py")
                    THEN extract_python_api(SourceOf(Head(es)), include_private)
                    ELSE <<>>
         IN (IF got # <<>> /\ KeepApi(op, got[1])
             THEN << [got[1] EXCEPT !.path = Head(es).rel_path] >> ELSE <<>>)
            \o ExtractAll(Tail(es))

RowPaths(rows) == [k \in 1..Len(rows) |-> rows[k].path]

\* C14: the output of a run is the output of the run over the same tree, churn
\* data and options whose walk takes the subdirectories in sorted order: the
\* order in which the walk enumerates subdirectories does not show.
C14_Deterministic ==
    /\ (op = "generate_map" /\ pc = "done" /\ sections # <<>>) =>
           output = Trimmed(Sections(root, SortedRunEntries, ExtractAll(SortedRunEntries),
                                     max_depth), token_budget)
    /\ (op = "generate_json" /\ pc = "done") =>
           /\ RowPaths(report[1].file_tree) = RowPaths([k \in 1..Len(SortedRunEntries) |->
                                                          [path |-> SortedRunEntries[k].rel_path]])
           /\ LET Serialised(m) == m.functions # <<>> \/ m.classes # <<>>
              IN RowPaths(report[1].api)
                     = RowPaths(SelectSeq(ExtractAll(SortedRunEntries), Serialised))


\* ------------------------------------------------------- claims on main

\* C15: for a path that is not a directory main returns 1 with a message on
\* stderr, nothing on stdout and no stage of the pipeline started; for a
\* directory it returns 0.
C15_ExitCodes ==
    proc.via_main =>
        /\ ~proc.is_dir =>
               /\ pc \in {"main", "exited"}
               /\ stack = <<>> /\ entries = <<>> /\ git = NoGit /\ apis = <<>>
               /\ sections = <<>> /\ output = "" /\ report = <<>>
               /\ proc.out = <<>>
               /\ pc = "exited" => (proc.exit_code = 1 /\ proc.err # <<>>)
        /\ proc.is_dir =>
               /\ pc # "raised"
               /\ pc = "exited" => proc.exit_code = 0


\* ------------------------------------------ more claims on the collector

\* C16: the line count of a listed file that can be read is the number of line
\* terminators in it, the count of one that cannot be read is 0, and such a
\* file is listed all the same.
C16_LineCount ==
    /\ \A k \in 1..Len(entries) :
           entries[k].lines = (IF SourceOf(entries[k]).read_ok THEN SourceOf(entries[k]).nl ELSE 0)
    /\ (op = "discover_files" /\ pc = "done") =>
           \A i \in tree :
               (/\ ~Universe[i].read_ok
                /\ Eligible(i)
                /\ Len(Universe[i].dir) <= max_depth
                /\ root # <<>>
                /\ ~exclude_tests)
               => Returned(i)

\* ------------------------------------------ more claims on the renderer

\* the section that follows the heading, "" without the heading
SectionAfter(heading) ==
    LET at == {k \in 1..(Len(sections) - 1) : sections[k] = heading}
    IN IF at = {} THEN "" ELSE sections[(CHOOSE k \in at : TRUE) + 1]

\* the import targets of an entry's source outside the standard library
ThirdPartyOf(e) ==
    IF Parses(e)
    THEN UNION {ImportsOf(SourceOf(e).body[k]) : k \in 1..Len(SourceOf(e).body)} \ STDLIB
    ELSE {}

\* the number of extracted modules that import the target
UsedBy(t) == Cardinality({k \in 1..Len(entries) : t \in ThirdPartyOf(entries[k])})

\* C17: the dependency digest of the map lists every import target outside the
\* standard library of every source that was read and parsed, the modules
\* without an extracted function or class included, with the number of such
\* modules that import it, in non-increasing order of that number.
C17_DependencyDigest ==
    (op = "generate_map" /\ pc = "done" /\ sections # <<>>) =>
        LET targets == UNION {ThirdPartyOf(entries[k]) : k \in 1..Len(entries)}
            Line(t) == "  " \o t \o " (used by " \o ToString(UsedBy(t)) \o " module"
                       \o (IF UsedBy(t) > 1 THEN "s" ELSE "") \o ")"
        IN IF targets = {}
           THEN SectionAfter("## Dependencies\n") = "No third-party dependencies detected."
           ELSE \E order \in Orderings(targets) :
                    /\ \A i, j \in 1..Len(order) : i < j => UsedBy(order[i]) >= UsedBy(order[j])
                    /\ SectionAfter("## Dependencies\n")
                           = Join([k \in 1..Len(order) |-> Line(order[k])], "\n")


\* the lines of the key-files shortlist: the sections between its heading and
\* the empty section that ends it
KeyLines ==
    LET at == {k \in 1..Len(sections) : sections[k] = "## Key Files\n"}
    IN IF at = {} THEN <<>>
       ELSE SubSeq(sections, (CHOOSE k \in at : TRUE) + 1, Len(sections) - 1)

\* the records a line of the shortlist may show
ShownBy(line) == {k \in 1..Len(entries) : StartsWith(line, "- **" \o entries[k].rel_path \o "**")}

\* the record the j-th line shows
ListedAt(j) == CHOOSE k \in ShownBy(KeyLines[j]) : TRUE

\* C18: the key-files shortlist of the map has min(10, number of files) lines,
\* each for a file of its own, in non-increasing order of importance, and no
\* file left out has a strictly greater importance than a file listed.
C18_KeyFiles ==
    (op = "generate_map" /\ pc = "done" /\ sections # <<>>) =>
        /\ Len(KeyLines) = Min(10, Len(entries))
        /\ \A j \in 1..Len(KeyLines) : ShownBy(KeyLines[j]) # {}
        /\ \A i, j \in 1..Len(KeyLines) :
               /\ i # j => ListedAt(i) # ListedAt(j)
               /\ i < j => ~FracLess(entries[ListedAt(i)].importance,
                                     entries[ListedAt(j)].importance)
        /\ \A k \in 1..Len(entries) :
               (\A j \in 1..Len(KeyLines) : ListedAt(j) # k) =>
                   \A j \in 1..Len(KeyLines) :
                       ~FracLess(entries[ListedAt(j)].importance, entries[k].importance)

\* a map over eleven files of two different scores: ten are listed, and the
\* one left out scores strictly less than the first one listed
C18_Witness ==
    /\ op = "generate_map" /\ pc = "done"
    /\ Len(entries) = 11 /\ Len(KeyLines) = 10
    /\ \E k \in 1..Len(entries) :
           /\ \A j \in 1..Len(KeyLines) : ListedAt(j) # k
           /\ FracLess(entries[k].importance, entries[ListedAt(1)].importance)


\* ------------------------------------------ more claims on the extractor

\* the positions of the classes of the source that are extracted
ClassPositions ==
    {k \in 1..Len(target.body) :
        /\ target.body[k].kind = "ClassDef"
        /\ (include_private \/ ~Underscored(target.body[k].name))}

\* the positions of the functions named __init__ in a class body
Constructors(body) ==
    {k \in 1..Len(body) :
        body[k].kind \in {"FunctionDef", "AsyncFunctionDef"} /\ body[k].name = "__init__"}

\* the positions of the other functions that pass the visibility rule
Members(body) ==
    {k \in 1..Len(body) :
        /\ body[k].kind \in {"FunctionDef", "AsyncFunctionDef"}
        /\ body[k].name # "__init__"
        /\ (include_private \/ ~Underscored(body[k].name))}

\* C19: for every extracted class, __init__ is not among the methods and its
\* parameters are the class's init_params whatever include_private is; the
\* methods are, in source order, the other functions of the class that pass
\* the underscore rule, and each carries the name of the class.
C19_ClassMembers ==
    Extracted =>
        /\ Len(apis[1].classes) = Cardinality(ClassPositions)
        /\ \A c \in 1..Len(apis[1].classes) :
               LET node == target.body[Kth(ClassPositions, c)]
                   sig == apis[1].classes[c]
               IN /\ \A m \in 1..Len(sig.methods) :
                         /\ sig.methods[m].name # "__init__"
                         /\ sig.methods[m].class_name = node.name
                  /\ NamesOf(sig.methods) = NamesAt(node.body, Members(node.body))
                  /\ sig.init_params =
                         (IF Constructors(node.body) = {} THEN ""
                          ELSE format_params(node.body[Kth(Constructors(node.body),
                                                           Cardinality(Constructors(node.body)))]))

\* class App extracted with include_private: __init__(self, name: str) gives
\* init_params, start and _stop are the methods
C19_Witness ==
    /\ Extracted /\ include_private
    /\ \E c \in 1..Len(apis[1].classes) :
           /\ apis[1].classes[c].name = "App"
           /\ apis[1].classes[c].init_params = "name: str"
           /\ NamesOf(apis[1].classes[c].methods) = <<"start", "_stop">>

\* the first dotted segments of the modules the import statements of the source name
ImportedSegments ==
    UNION {
        IF target.body[k].kind = "Import"
        THEN {FirstSegment(target.body[k].names[i]) : i \in 1..Len(target.body[k].names)}
        ELSE IF target.body[k].kind = "ImportFrom" /\ target.body[k].module # ""
        THEN {FirstSegment(target.body[k].module)}
        ELSE {} : k \in 1..Len(target.body)}

\* C20: the import list of a parsable source holds the first dotted segment of
\* the module named by every top-level import and from-import, the relative
\* ones included, in ascending order and without duplicates.
C20_Imports ==
    Extracted =>
        /\ Range(apis[1].imports) = ImportedSegments
        /\ \A i, j \in 1..Len(apis[1].imports) :
               i < j => StrLess(apis[1].imports[i], apis[1].imports[j])

\* from yaml.loader, then import os.path, then a relative from .sibling.x
C20_Witness ==
    /\ Extracted
    /\ Len(target.body) = 3
    /\ target.body[1].module = "yaml.loader"
    /\ target.body[2].kind = "Import"
    /\ target.body[3].level = 1 /\ target.body[3].module = "sibling.x"
    /\ apis[1].imports = <<"os", "sibling", "yaml">>


\* ------------------------------------------ the order of the stages

\* the place of a position of generate_map / generate_json in the sequence of stages
StageRank(p) ==
    CASE p = "call" -> 0
      [] p = "walk" -> 1
      [] p = "discovered" -> 2
      [] p = "scored" -> 3
      [] p = "extract" -> 4
      [] OTHER -> 5

\* a step of the scorer, of the extraction loop, of a renderer
ScoreStep == pc = "discovered" /\ pc' \in {"scored", "raised"}
ExtractStep == pc = "extract" /\ (idx' = idx + 1 \/ pc' = "raised")
RenderStep == output' # output \/ report' # report

\* the paths of the records
PathsOf(es) == {es[k].rel_path : k \in 1..Len(es)}

\* C21: the stages run in order and once each. A run never goes back to an
\* earlier stage; the records are collected before the scorer starts and no
\* record joins or leaves later; a file is handed to the extractor only after
\* the scorer has returned, and no file handed over earlier scores less; a
\* renderer starts only when the loop over the records is exhausted (or, for
\* the map, when no file was found).
C21_StageOrder ==
    [][ /\ pc' # pc => StageRank(pc) < StageRank(pc')
        /\ ScoreStep => stack = <<>> /\ apis = <<>> /\ output = "" /\ report = <<>>
        /\ StageRank(pc) >= 2 => PathsOf(entries') = PathsOf(entries) /\ stack' = stack
        /\ StageRank(pc) >= 4 => entries' = entries /\ git' = git
        /\ ExtractStep =>
               /\ raised = "" /\ output = "" /\ report = <<>>
               /\ \A k \in 1..(idx - 1) : ~FracLess(entries[k].importance, entries[idx].importance)
        /\ apis' # apis => ExtractStep \/ pc = "scored"
        /\ RenderStep =>
               \/ pc = "extract" /\ idx > Len(entries) /\ pc' = "done"
               \/ op = "generate_map" /\ pc = "discovered" /\ entries = <<>> /\ pc' = "done"
      ]_vars

\* a finished run in which config.json was collected before main.py and
\* main.py, which scores more, went to the extractor first
C21_Witness ==
    /\ op = "generate_json" /\ pc = "done" /\ report # <<>>
    /\ Len(entries) >= 2 /\ Len(apis) >= 1
    /\ entries[1].rel_path = "main.py" /\ apis[1].path = "main.py"
    /\ \E k \in 2..Len(entries) :
           /\ entries[k].rel_path = "config.json"
           /\ FracLess(entries[k].importance, entries[1].importance)


\* ------------------------------------------ claims on the decorators

\* the positions of the functions of a body that are extracted
ListedFunctions(body) ==
    {k \in 1..Len(body) :
        /\ body[k].kind \in {"FunctionDef", "AsyncFunctionDef"}
        /\ (include_private \/ ~Underscored(body[k].name))}

\* the decorators of a function that render, as text and in source order
DecoratorTexts(node) ==
    LET shown == {k \in 1..Len(node.decorators) : node.decorators[k].renders}
    IN [k \in 1..Cardinality(shown) |-> node.decorators[Kth(shown, k)].text]

\* C22: every extracted signature, of a module-level function or of a method,
\* carries the texts of the decorators of its function that render, in source
\* order, and a decorator that does not render never makes the extraction of a
\* parsable source fail.
C22_Decorators ==
    /\ (op = "extract_python_api" /\ pc = "raised") => ~target.parse_ok
    /\ Extracted =>
           /\ \A f \in 1..Len(apis[1].functions) :
                  apis[1].functions[f].decorators =
                      DecoratorTexts(target.body[Kth(ListedFunctions(target.body), f)])
           /\ \A c \in 1..Len(apis[1].classes) :
                  LET node == target.body[Kth(ClassPositions, c)]
                      sig == apis[1].classes[c]
                  IN \A m \in 1..Len(sig.methods) :
                         sig.methods[m].decorators =
                             DecoratorTexts(node.body[Kth(Members(node.body), m)])


\* ------------------------------------------ claims on the test filter

\* The records discover_files collects on the tree of this run placed under
\* the root rt, from the directories on the stack on.
RECURSIVE WalkFrom(_, _)
WalkFrom(rt, stk) ==
    IF stk = <<>> THEN <<>>
    ELSE LET d == Head(stk)
             subdirs == SortedStrings(KeptDirNames(DirNamesIn(tree, d)))
         IN IF TooDeep(WalkDepth(rt, d), max_depth) THEN WalkFrom(rt, Tail(stk))
            ELSE VisitFiles(rt, tree, exclude_tests, d, SortedStrings(FileNamesIn(tree, d)))
                 \o WalkFrom(rt, [k \in 1..Len(subdirs) |-> d \o <<subdirs[k]>>] \o Tail(stk))

\* C23: with exclude_tests, the relative paths listed for a tree are those
\* listed for the same tree under a root directory of another name (here
\* /proj): the name of the root directory does not show in what is filtered.
C23_RootNameIrrelevant ==
    (op = "discover_files" /\ pc = "done" /\ exclude_tests /\ root # <<>>) =>
        PathsOf(entries) = PathsOf(WalkFrom(<<"proj">>, << <<>> >>))


\* ------------------------------------------ claims on the JSON summary

\* the sum of the lines of the first n rows
RECURSIVE LinesUpTo(_, _)
LinesUpTo(rows, n) == IF n = 0 THEN 0 ELSE LinesUpTo(rows, n - 1) + rows[n].lines

\* the positions of the rows flagged as entrypoints
FlaggedRows(rows) == {k \in 1..Len(rows) : rows[k].entrypoint}

\* C24: in the JSON output, files is the number of file_tree rows, total_lines
\* the sum of their lines, languages the ascending duplicate-free list of
\* their non-empty language tags, entrypoints the paths of the rows flagged
\* entrypoint in file_tree order; the importance of the rows never increases
\* down file_tree, and the module of every api entry is the path of exactly
\* one row.
C24_SummaryAgrees ==
    \A r \in Range(report) :
        LET rows == r.file_tree IN
        /\ r.files = Len(rows)
        /\ r.total_lines = LinesUpTo(rows, Len(rows))
        /\ Range(r.languages) = {rows[k].language : k \in 1..Len(rows)} \ {""}
        /\ \A i, j \in 1..Len(r.languages) : i < j => StrLess(r.languages[i], r.languages[j])
        /\ Len(r.entrypoints) = Cardinality(FlaggedRows(rows))
        /\ \A k \in 1..Len(r.entrypoints) : r.entrypoints[k] = rows[Kth(FlaggedRows(rows), k)].path
        /\ \A k \in 1..(Len(rows) - 1) : rows[k].importance >= rows[k + 1].importance
        /\ \A a \in 1..Len(r.api) :
               Cardinality({k \in 1..Len(rows) : rows[k].path = r.api[a].path}) = 1

\* a JSON output over main.py (an entrypoint with an api entry) and
\* config.json (no entrypoint, another language, a lower importance)
C24_Witness ==
    /\ op = "generate_json" /\ pc = "done" /\ report # <<>>
    /\ report[1].files = 2 /\ report[1].total_lines > 0
    /\ report[1].languages = <<"JSON", "Python">>
    /\ report[1].entrypoints = <<"main.py">>
    /\ report[1].file_tree[1].importance > report[1].file_tree[2].importance
    /\ Len(report[1].api) = 1 /\ report[1].api[1].path = "main.py"

====
